---- MODULE Spec2Model ----
(***************************************************************************)
(* A model of the allocator combinators of composable-allocators:          *)
(*   - SizeLimit / CountLimit (src/limit.rs): an atomic budget in front of *)
(*     an inner allocator, used by several threads at once;                *)
(*   - Or (src/or.rs) over a primary that implements Owns and a fallback,  *)
(*     with Null (src/null.rs) as one of the possible children;            *)
(*   - AffixLayout, Affix and Guard (src/affix.rs) over a heap whose bytes *)
(*     are modelled, alone and as the primary of an Or;                    *)
(*   - Zero (src/zero.rs) over an inner allocator.                         *)
(* SpecLimit is the behaviour of one shared limit combinator, SpecOr the   *)
(* behaviour of one Or combinator, SpecAffix the life of one allocation    *)
(* made through Affix / Guard (also under a Zero), SpecZero the behaviour  *)
(* of one Zero over any inner allocator.                                   *)
(***************************************************************************)
EXTENDS Integers, Sequences, FiniteSets, TLC

\* ------------------------------------------------------------------ bounds
\* usize is modelled UsizeBits wide: AtomicUsize arithmetic wraps at 2^UsizeBits.
UsizeBits == 3
\* The limits a SizeLimit / CountLimit is constructed with: 0..MaxLimit.
MaxLimit == 1
\* Layout sizes requested: 0..MaxSize.
MaxSize == 2
\* Addresses of each child of Or: PoolSize each.
PoolSize == 1
\* Sizes of the types PrefixT and SuffixT of an Affix: 0..MaxAffix.
MaxAffix == 1

UsizeModulus == 2 ^ UsizeBits

\* Addresses of the inner allocator of the limit combinators: one more than any
\* CountLimit can hand out, so that the limit and not the heap is what refuses.
Ptrs == 1..(MaxLimit + 1)

Threads == {"t1", "t2"}

\* core::alloc::Layout, as far as the combinators read it.
Layouts == [size : 0..MaxSize, align : {1}]

NoLayout == [size |-> 0, align |-> 1]
NoBlock == [ptr |-> 0, layout |-> NoLayout]

\* Option<usize>
None == [some |-> FALSE, val |-> 0]
Some(v) == [some |-> TRUE, val |-> v]

VARIABLES
    kind,       \* "size": the combinator is a SizeLimit, "count": a CountLimit
    initial,    \* the limit it was constructed with
    reliable,   \* TRUE: its inner allocator never fails
    limit,      \* the AtomicUsize field `limit`
    expected,   \* tally of every update applied to `limit` (history)
    live,       \* blocks the inner allocator has handed out and not got back
    pc,         \* per thread: where it is inside allocate / deallocate
    lay,        \* per thread: the layout argument of its call
    prev,       \* per thread: fetch_update's `prev`
    res,        \* per thread: the Result its allocate returns
    blk,        \* per thread: the block its call is about
    innerCalls, \* per thread: calls of inner.allocate made by its allocate (history)
    primaryKind,   \* Or.primary: "Null" or "Owning" (an allocator with accurate Owns)
    fallbackKind,  \* Or.fallback: "Null" or "Base"
    orLive,        \* per child of Or: the blocks it has handed out
    orLast,        \* the last operation on Or: what it called and what it returned
    panicked,      \* Null.deallocate was reached
    foreign,       \* a child was handed a block it never produced
    prefixT,       \* Layout::new::<PrefixT>() of the Affix
    suffixT,       \* Layout::new::<SuffixT>() of the Affix
    mem,           \* the bytes of the block that is allocated, by address
    afBlock,       \* the allocation that is outstanding, if any
    afLast,        \* the last operation on Affix / Guard / Or: what it did
    zeroLive,      \* the blocks the inner allocator of Zero has handed out
    zeroLast       \* the last operation on Zero: what it called on its inner

limitVars ==
    <<kind, initial, reliable, limit, expected, live, pc, lay, prev, res, blk, innerCalls>>
orVars == <<primaryKind, fallbackKind, orLive, orLast, panicked, foreign>>
affixVars == <<prefixT, suffixT, mem, afBlock, afLast>>
zeroVars == <<zeroLive, zeroLast>>
wrapVars == <<affixVars, zeroVars>>
vars == <<limitVars, orVars, wrapVars>>

\* ------------------------------------------------------- usize arithmetic
\* usize::checked_sub
checked_sub(a, b) == IF b > a THEN None ELSE Some(a - b)
\* AtomicUsize::fetch_sub stores the wrapping difference
wrapping_sub(a, b) == (a - b + UsizeModulus) % UsizeModulus
\* AtomicUsize::fetch_add stores the wrapping sum
wrapping_add(a, b) == (a + b) % UsizeModulus

\* ------------------------------------------------- SizeLimit / CountLimit
\* A SizeLimit whose closure subtracts without the check.
SizeLimit_reserve_unchecked(it, layout) == Some(wrapping_sub(it, layout.size))
\* SizeLimit::allocate's closure |it| it.checked_sub(layout.size())
SizeLimit_reserve(it, layout) == checked_sub(it, layout.size)
\* A CountLimit whose closure charges the size, as SizeLimit's does.
CountLimit_reserve_size(it, layout) == checked_sub(it, layout.size)
\* CountLimit::allocate's closure |it| it.checked_sub(1)
CountLimit_reserve(it, layout) == checked_sub(it, 1)
\* SizeLimit::deallocate: self.limit.fetch_sub(layout.size(), Release)
SizeLimit_release(cur, layout) == wrapping_sub(cur, layout.size)
\* CountLimit::deallocate: self.limit.fetch_add(1, Release)
CountLimit_release(cur, layout) == wrapping_add(cur, 1)

\* The closure and the release of the combinator under test.
Reserve(it, layout) ==
    IF kind = "size" THEN SizeLimit_reserve(it, layout) ELSE CountLimit_reserve(it, layout)
Release(cur, layout) ==
    IF kind = "size" THEN SizeLimit_release(cur, layout) ELSE CountLimit_release(cur, layout)

\* An update that stores next whatever the counter holds (read, then write).
compare_exchange_blind(cur, old) == TRUE
\* fetch_update's compare_exchange_weak(prev, next): it stores only if the
\* counter still holds the value the closure was applied to.
compare_exchange_weak(cur, old) == cur = old

\* Addresses the inner allocator has not handed out.
FreePtrs == Ptrs \ {b.ptr : b \in live}
\* The address the inner allocator hands out next: the lowest free one (which
\* address it is plays no part in what the combinators do).
NextPtr == CHOOSE p \in FreePtrs : \A q \in FreePtrs : p <= q
\* Calls that have passed, or may still pass, the reservation and have not yet
\* reached the inner allocator.
Reserving == {t \in Threads : pc[t] \in {"cas", "inner"}}

LimitInit ==
    /\ kind \in {"size", "count"}
    /\ initial \in 0..MaxLimit
    /\ reliable \in BOOLEAN
    /\ limit = initial
    /\ expected = initial
    /\ live = {}
    /\ pc = [t \in Threads |-> "idle"]
    /\ lay = [t \in Threads |-> NoLayout]
    /\ prev = [t \in Threads |-> 0]
    /\ res = [t \in Threads |-> "none"]
    /\ blk = [t \in Threads |-> NoBlock]
    /\ innerCalls = [t \in Threads |-> 0]

\* allocate, entry: fetch_update loads the counter and applies the closure.
\* None ends the call with Err(AllocError); Some(next) goes on to the
\* compare-exchange. (The second conjunct bounds the model: a call starts only
\* while the inner allocator has an address left for it.)
allocate_load(t, layout) ==
    /\ pc[t] = "idle"
    /\ Cardinality(live) + Cardinality(Reserving) < Cardinality(Ptrs)
    /\ lay' = [lay EXCEPT ![t] = layout]
    /\ IF Reserve(limit, layout).some
       THEN /\ pc' = [pc EXCEPT ![t] = "cas"]
            /\ prev' = [prev EXCEPT ![t] = limit]
            /\ res' = res
       ELSE /\ pc' = [pc EXCEPT ![t] = "ret"]
            /\ prev' = prev
            /\ res' = [res EXCEPT ![t] = "Err_limit"]
    /\ UNCHANGED <<kind, initial, reliable, limit, expected, live, blk, innerCalls>>
    /\ UNCHANGED <<orVars, wrapVars>>

\* fetch_update, compare_exchange_weak succeeds: the counter becomes next and
\* allocate goes on to self.inner.allocate(layout).
allocate_cas_ok(t) ==
    /\ pc[t] = "cas"
    /\ compare_exchange_weak(limit, prev[t])
    /\ limit' = Reserve(prev[t], lay[t]).val
    /\ expected' = wrapping_sub(expected, prev[t] - Reserve(prev[t], lay[t]).val)
    /\ pc' = [pc EXCEPT ![t] = "inner"]
    /\ prev' = [prev EXCEPT ![t] = 0]
    /\ UNCHANGED <<kind, initial, reliable, live, lay, res, blk, innerCalls>>
    /\ UNCHANGED <<orVars, wrapVars>>

\* fetch_update, compare_exchange_weak fails: prev becomes the value found and
\* the closure is applied again; None ends the call with Err(AllocError).
allocate_cas_retry(t) ==
    /\ pc[t] = "cas"
    /\ ~compare_exchange_weak(limit, prev[t])
    /\ IF Reserve(limit, lay[t]).some
       THEN /\ prev' = [prev EXCEPT ![t] = limit]
            /\ pc' = pc
            /\ res' = res
       ELSE /\ prev' = [prev EXCEPT ![t] = 0]
            /\ pc' = [pc EXCEPT ![t] = "ret"]
            /\ res' = [res EXCEPT ![t] = "Err_limit"]
    /\ UNCHANGED <<kind, initial, reliable, limit, expected, live, lay, blk, innerCalls>>
    /\ UNCHANGED <<orVars, wrapVars>>

\* An allocate that gives the reservation back when the inner allocator fails.
allocate_inner_rollback(t) ==
    /\ pc[t] = "inner"
    /\ \/ /\ FreePtrs # {}
          /\ live' = live \cup {[ptr |-> NextPtr, layout |-> lay[t]]}
          /\ blk' = [blk EXCEPT ![t] = [ptr |-> NextPtr, layout |-> lay[t]]]
          /\ res' = [res EXCEPT ![t] = "Ok"]
          /\ UNCHANGED <<limit, expected>>
       \/ /\ ~reliable
          /\ live' = live
          /\ blk' = blk
          /\ res' = [res EXCEPT ![t] = "Err_inner"]
          /\ limit' = wrapping_add(limit, IF kind = "size" THEN lay[t].size ELSE 1)
          /\ expected' = wrapping_add(expected, IF kind = "size" THEN lay[t].size ELSE 1)
    /\ pc' = [pc EXCEPT ![t] = "ret"]
    /\ UNCHANGED <<kind, initial, reliable, lay, prev>>
    /\ innerCalls' = [innerCalls EXCEPT ![t] = @ + 1]
    /\ UNCHANGED <<orVars, wrapVars>>
\* Ok(_) => self.inner.allocate(layout): the inner allocator hands out a free
\* address or, unless it is reliable, fails.
allocate_inner(t) ==
    /\ pc[t] = "inner"
    /\ \/ /\ FreePtrs # {}
          /\ live' = live \cup {[ptr |-> NextPtr, layout |-> lay[t]]}
          /\ blk' = [blk EXCEPT ![t] = [ptr |-> NextPtr, layout |-> lay[t]]]
          /\ res' = [res EXCEPT ![t] = "Ok"]
       \/ /\ ~reliable
          /\ live' = live
          /\ blk' = blk
          /\ res' = [res EXCEPT ![t] = "Err_inner"]
    /\ pc' = [pc EXCEPT ![t] = "ret"]
    /\ UNCHANGED <<kind, initial, reliable, limit, expected, lay, prev>>
    /\ innerCalls' = [innerCalls EXCEPT ![t] = @ + 1]
    /\ UNCHANGED <<orVars, wrapVars>>

\* allocate returns its Result to the caller.
allocate_return(t) ==
    /\ pc[t] = "ret"
    /\ pc' = [pc EXCEPT ![t] = "idle"]
    /\ lay' = [lay EXCEPT ![t] = NoLayout]
    /\ res' = [res EXCEPT ![t] = "none"]
    /\ blk' = [blk EXCEPT ![t] = NoBlock]
    /\ UNCHANGED <<kind, initial, reliable, limit, expected, live, prev>>
    /\ innerCalls' = [innerCalls EXCEPT ![t] = 0]
    /\ UNCHANGED <<orVars, wrapVars>>

\* Blocks a caller holds: handed out, returned to the caller, and not yet
\* passed to deallocate.
Outstanding == live \ {blk[t] : t \in Threads}

\* deallocate(ptr, layout) of a block obtained earlier: the fetch on the counter.
deallocate_fetch(t, b) ==
    /\ pc[t] = "idle"
    /\ b \in Outstanding
    /\ limit' = Release(limit, b.layout)
    /\ expected' = Release(expected, b.layout)
    /\ pc' = [pc EXCEPT ![t] = "free"]
    /\ blk' = [blk EXCEPT ![t] = b]
    /\ lay' = [lay EXCEPT ![t] = b.layout]
    /\ UNCHANGED <<kind, initial, reliable, live, prev, res, innerCalls>>
    /\ UNCHANGED <<orVars, wrapVars>>

\* deallocate: self.inner.deallocate(ptr, layout), and the call returns.
deallocate_inner(t) ==
    /\ pc[t] = "free"
    /\ live' = live \ {blk[t]}
    /\ pc' = [pc EXCEPT ![t] = "idle"]
    /\ blk' = [blk EXCEPT ![t] = NoBlock]
    /\ lay' = [lay EXCEPT ![t] = NoLayout]
    /\ UNCHANGED <<kind, initial, reliable, limit, expected, prev, res, innerCalls>>
    /\ UNCHANGED <<orVars, wrapVars>>

LimitNext ==
    \E t \in Threads :
        \/ \E layout \in Layouts : allocate_load(t, layout)
        \/ allocate_cas_ok(t)
        \/ allocate_cas_retry(t)
        \/ allocate_inner(t)
        \/ allocate_return(t)
        \/ \E b \in live : deallocate_fetch(t, b)
        \/ deallocate_inner(t)


\* ------------------------------------------------------------ Null and Or
Children == {"primary", "fallback"}
KindOf(c) == IF c = "primary" THEN primaryKind ELSE fallbackKind
\* The addresses a child that allocates hands out: each child has its own.
Pool(c) == IF c = "primary" THEN 1..PoolSize ELSE (PoolSize + 1)..(2 * PoolSize)
FreeIn(c) == Pool(c) \ {b.ptr : b \in orLive[c]}

\* Result<NonNull<[u8]>, AllocError>, with the child it comes from.
Ok(c, p) == [ok |-> TRUE, ptr |-> p, from |-> c]
Err(c) == [ok |-> FALSE, ptr |-> 0, from |-> c]
NoResult == [ok |-> FALSE, ptr |-> 0, from |-> "none"]
\* One call Or makes on a child.
Call(c, op, r) == [child |-> c, op |-> op, ok |-> r.ok]

\* Null::allocate: Err(AllocError) for every layout.
Null_allocate(layout) == {Err("Null")}
\* A Null that claims every pointer.
Null_owns_all(ptr, layout) == TRUE
\* Null::owns: false for every pointer.
Null_owns(ptr, layout) == FALSE

\* child.owns(ptr, layout). An Owning child answers by address range, which is
\* accurate: the ranges of the two children are disjoint.
owns(c, ptr, layout) ==
    IF KindOf(c) = "Null" THEN Null_owns(ptr, layout) ELSE ptr \in Pool(c)

\* The results child.allocate(layout) / child.allocate_zeroed(layout) can
\* have. Null keeps the trait's allocate_zeroed, which calls its allocate.
AllocOutcomes(c, layout) ==
    IF KindOf(c) = "Null"
    THEN {Err(c) : r \in Null_allocate(layout)}
    ELSE {Err(c)} \cup {Ok(c, p) : p \in FreeIn(c)}

\* The results child.grow / grow_zeroed / shrink (ptr, old, new) can have: the
\* block moves, stays in place, or the call fails and the block is kept. Null
\* keeps the trait's methods, which start with its allocate and so fail.
ResizeOutcomes(c, ptr, new) ==
    IF KindOf(c) = "Null"
    THEN {Err(c) : r \in Null_allocate(new)}
    ELSE {Err(c)} \cup {Ok(c, p) : p \in FreeIn(c) \cup {ptr}}

\* orLive after child c returned r for an allocation with `layout`.
Allocated(c, r, layout) ==
    IF r.ok
    THEN [orLive EXCEPT ![c] = @ \cup {[ptr |-> r.ptr, layout |-> layout]}]
    ELSE orLive

OrInit ==
    /\ primaryKind \in {"Null", "Owning"}
    /\ fallbackKind \in {"Null", "Base"}
    /\ orLive = [c \in Children |-> {}]
    /\ orLast = [op |-> "none", ptr |-> 0, layout |-> NoLayout, calls |-> <<>>, result |-> NoResult]
    /\ panicked = FALSE
    /\ foreign = FALSE

\* first.op(layout).or_else(|_| second.op(layout))
or_else(first, second, op, layout) ==
    /\ ~panicked
    /\ \E r1 \in AllocOutcomes(first, layout) :
        IF r1.ok
        THEN /\ orLive' = Allocated(first, r1, layout)
             /\ orLast' = [op |-> op, ptr |-> 0, layout |-> layout,
                           calls |-> <<Call(first, op, r1)>>, result |-> r1]
        ELSE \E r2 \in AllocOutcomes(second, layout) :
             /\ orLive' = Allocated(second, r2, layout)
             /\ orLast' = [op |-> op, ptr |-> 0, layout |-> layout,
                           calls |-> <<Call(first, op, r1), Call(second, op, r2)>>,
                           result |-> r2]
    /\ UNCHANGED <<primaryKind, fallbackKind, panicked, foreign>>
    /\ UNCHANGED <<limitVars, wrapVars>>

\* An Or that tries the fallback before the primary.
Or_allocate_fallback_first(layout) == or_else("fallback", "primary", "allocate", layout)
\* Or::allocate
Or_allocate(layout) == or_else("primary", "fallback", "allocate", layout)
\* Or::allocate_zeroed
Or_allocate_zeroed(layout) == or_else("primary", "fallback", "allocate_zeroed", layout)

\* The two branches exchanged.
Or_route_swapped(ptr, layout) ==
    IF owns("primary", ptr, layout) THEN "fallback" ELSE "primary"
\* if self.primary.owns(ptr, layout) { primary } else { fallback }
Or_route(ptr, layout) == IF owns("primary", ptr, layout) THEN "primary" ELSE "fallback"

\* Or::deallocate. Null::deallocate panics; any other child takes the block
\* back, and a block it never handed out is a foreign one.
Or_deallocate(b) ==
    /\ ~panicked
    /\ b \in orLive["primary"] \cup orLive["fallback"]
    /\ LET c == Or_route(b.ptr, b.layout) IN
        /\ panicked' = (KindOf(c) = "Null")
        /\ foreign' = (foreign \/ (KindOf(c) # "Null" /\ b \notin orLive[c]))
        /\ orLive' = IF KindOf(c) = "Null" THEN orLive
                     ELSE [orLive EXCEPT ![c] = @ \ {b}]
        /\ orLast' = [op |-> "deallocate", ptr |-> b.ptr, layout |-> b.layout,
                      calls |-> <<Call(c, "deallocate", Ok(c, b.ptr))>>,
                      result |-> NoResult]
    /\ UNCHANGED <<primaryKind, fallbackKind>>
    /\ UNCHANGED <<limitVars, wrapVars>>

\* Or::grow, Or::grow_zeroed and Or::shrink: the same routing, then the
\* child's method of the same name.
Or_resize(op, b, new) ==
    /\ ~panicked
    /\ b \in orLive["primary"] \cup orLive["fallback"]
    /\ LET c == Or_route(b.ptr, b.layout) IN
        /\ foreign' = (foreign \/ (KindOf(c) # "Null" /\ b \notin orLive[c]))
        /\ IF KindOf(c) # "Null" /\ b \notin orLive[c]
           THEN /\ orLive' = orLive
                /\ orLast' = [op |-> op, ptr |-> b.ptr, layout |-> b.layout,
                              calls |-> <<Call(c, op, Err(c))>>, result |-> Err(c)]
           ELSE \E r \in ResizeOutcomes(c, b.ptr, new) :
                /\ orLive' = IF r.ok
                             THEN [orLive EXCEPT ![c] =
                                      (@ \ {b}) \cup {[ptr |-> r.ptr, layout |-> new]}]
                             ELSE orLive
                /\ orLast' = [op |-> op, ptr |-> b.ptr, layout |-> b.layout,
                              calls |-> <<Call(c, op, r)>>, result |-> r]
    /\ UNCHANGED <<primaryKind, fallbackKind, panicked>>
    /\ UNCHANGED <<limitVars, wrapVars>>

Or_grow(b, new) == new.size >= b.layout.size /\ Or_resize("grow", b, new)
Or_grow_zeroed(b, new) == new.size >= b.layout.size /\ Or_resize("grow_zeroed", b, new)
Or_shrink(b, new) == new.size <= b.layout.size /\ Or_resize("shrink", b, new)

OrBlocks == orLive["primary"] \cup orLive["fallback"]

OrNext ==
    \/ \E layout \in Layouts : Or_allocate(layout)
    \/ \E layout \in Layouts : Or_allocate_zeroed(layout)
    \/ \E b \in OrBlocks : Or_deallocate(b)
    \/ \E b \in OrBlocks, new \in Layouts : Or_grow(b, new)
    \/ \E b \in OrBlocks, new \in Layouts : Or_grow_zeroed(b, new)
    \/ \E b \in OrBlocks, new \in Layouts : Or_shrink(b, new)

\* ------------------------------------------------------- core::alloc::Layout
\* isize::MAX of a usize that is UsizeBits wide
IsizeMax == 2 ^ (UsizeBits - 1) - 1
\* The alignments in use.
Aligns == {1, 2}
Max(a, b) == IF a >= b THEN a ELSE b
\* size rounded up to the next multiple of align
RoundUp(size, align) == ((size + align - 1) \div align) * align
\* Layout::from_size_align accepts a size that, rounded up to align, does not
\* exceed isize::MAX.
Layout_is_valid(l) == l.size <= IsizeMax - (l.align - 1)
\* The layouts a caller asks a body for.
BodyLayouts == {l \in [size : 0..MaxSize, align : Aligns] : Layout_is_valid(l)}
\* Layout::new::<T>(): the size of a type is a multiple of its alignment.
TypeLayouts ==
    {l \in [size : 0..MaxAffix, align : Aligns] :
        l.size % l.align = 0 /\ Layout_is_valid(l)}

\* Result<(Layout, usize), LayoutError>
LayoutErr == [some |-> FALSE, layout |-> NoLayout, offset |-> 0]
\* An extend that puts `next` right after `self`, without padding.
Layout_extend_packed(self, next) ==
    LET new_align == Max(self.align, next.align)
        new_size == self.size + next.size
    IN IF new_size > IsizeMax - (new_align - 1) THEN LayoutErr
       ELSE [some |-> TRUE,
             layout |-> [size |-> new_size, align |-> new_align],
             offset |-> self.size]
\* Layout::extend: `next` goes at the first offset after `self` that is
\* aligned for it; the result is an error if the new size overflows.
Layout_extend(self, next) ==
    LET new_align == Max(self.align, next.align)
        offset == RoundUp(self.size, next.align)
        new_size == offset + next.size
    IN IF new_size > IsizeMax - (new_align - 1) THEN LayoutErr
       ELSE [some |-> TRUE,
             layout |-> [size |-> new_size, align |-> new_align],
             offset |-> offset]
\* Layout::pad_to_align
pad_to_align(l) == [size |-> RoundUp(l.size, l.align), align |-> l.align]

\* ------------------------------------------------------------- AffixLayout
\* Option<AffixLayout>
NoAffixLayout ==
    [some |-> FALSE, body_offset |-> 0, suffix_offset |-> 0, outer |-> NoLayout]
\* AffixLayout::new::<PrefixT, SuffixT>(body)
AffixLayout_new(prefix, suffix, body) ==
    LET first == Layout_extend(prefix, body) IN
    IF ~first.some THEN NoAffixLayout
    ELSE LET second == Layout_extend(first.layout, suffix) IN
         IF ~second.some THEN NoAffixLayout
         ELSE [some |-> TRUE,
               body_offset |-> first.offset,
               suffix_offset |-> second.offset,
               outer |-> pad_to_align(second.layout)]

\* NonNull<[u8]>: a start address and a length
Slice(ptr, len) == [ptr |-> ptr, len |-> len]
NoSlice == Slice(0, 0)
\* AffixLayout::narrow: the slice starts body_offset into the outer slice and
\* is given the length self.suffix_offset.
narrow(afl, outer) == Slice(outer.ptr + afl.body_offset, afl.suffix_offset)
\* A broaden that measures the suffix from the body, not from the prefix.
broaden_from_body(afl, body) ==
    [prefix |-> body - afl.body_offset, suffix |-> body + afl.suffix_offset]
\* AffixLayout::broaden: (prefix, suffix) pointers from the body pointer
broaden(afl, body) ==
    LET prefix == body - afl.body_offset IN
    [prefix |-> prefix, suffix |-> prefix + afl.suffix_offset]

\* ------------------------------------------------- the heaps under Affix
\* The bytes of the guard values of the test: [0xFF; 3] and [0xEE; 3].
PrefixByte == 255
SuffixByte == 238
\* The values a byte of the block takes: zero or a byte of a guard value.
Bytes == {0, SuffixByte, PrefixByte}
\* The addresses ptr, ptr + 1, .. of `size` bytes
Extent(ptr, size) == ptr..(ptr + size - 1)
\* Each heap has an arena of its own, above every offset an AffixLayout holds
\* and large enough for the largest layout at any alignment.
ArenaLen == IsizeMax + 2
Arena(c) ==
    IF c = "primary" THEN ArenaLen..(2 * ArenaLen - 1)
    ELSE (2 * ArenaLen)..(3 * ArenaLen - 1)
\* posix_memalign: the address returned is a multiple of layout.align().
Place(c, layout) ==
    CHOOSE a \in Arena(c) :
        /\ a % layout.align = 0
        /\ \A b \in Arena(c) : b % layout.align = 0 => a <= b
\* Owns of the heap under Affix: the heap knows the addresses it hands out.
Heap_owns(c, ptr, layout) == ptr \in Arena(c)
\* The memory of a block fresh from the heap, which no combinator reads
\* before writing it: filled with zeros or with any other byte.
Fresh(ptr, size) == {[a \in Extent(ptr, size) |-> b] : b \in Bytes}
EmptyMem == [a \in {} |-> 0]

\* One call a combinator makes on the allocator it wraps.
CallOn(on, op, ptr, layout, ok) ==
    [on |-> on, op |-> op, ptr |-> ptr, layout |-> layout, ok |-> ok]

\* (prefix, body, suffix) of affix_allocate
NoTriple == [prefix |-> 0, body |-> NoSlice, suffix |-> 0]
NoAfBlock ==
    [via |-> "none", layout |-> NoLayout, body |-> NoSlice, afl |-> NoAffixLayout,
     owner |-> "none", start |-> 0, alloc |-> NoLayout]
AfLog(op, layout, ptr, afl, calls, result, triple, route) ==
    [op |-> op, layout |-> layout, ptr |-> ptr, afl |-> afl, calls |-> calls,
     result |-> result, triple |-> triple, route |-> route]
NoAfLog == AfLog("none", NoLayout, 0, NoAffixLayout, <<>>, "none", NoTriple, "none")

\* Affix::affix_allocate(body): its possible results, with the call made on
\* the inner allocator. A failed AffixLayout::new is an AllocError without a
\* call; a failed inner allocate is passed on; otherwise the outer slice is
\* narrowed to the body and the body broadened to the two affix pointers.
affix_allocate(body) ==
    LET affix_layout == AffixLayout_new(prefixT, suffixT, body) IN
    IF ~affix_layout.some
    THEN {[ok |-> FALSE, afl |-> affix_layout, calls |-> <<>>,
           outer |-> NoSlice, triple |-> NoTriple]}
    ELSE LET outer == Slice(Place("primary", affix_layout.outer), affix_layout.outer.size)
             narrowed == narrow(affix_layout, outer)
             ends == broaden(affix_layout, narrowed.ptr)
         IN {[ok |-> FALSE, afl |-> affix_layout,
              calls |-> <<CallOn("inner", "allocate", 0, affix_layout.outer, FALSE)>>,
              outer |-> NoSlice, triple |-> NoTriple],
             [ok |-> TRUE, afl |-> affix_layout,
              calls |-> <<CallOn("inner", "allocate", outer.ptr, affix_layout.outer, TRUE)>>,
              outer |-> outer,
              triple |-> [prefix |-> ends.prefix, body |-> narrowed, suffix |-> ends.suffix]]}

\* The block an allocation through Affix leaves outstanding.
AffixBlock(via, layout, r) ==
    [via |-> via, layout |-> layout, body |-> r.triple.body, afl |-> r.afl,
     owner |-> "primary", start |-> r.outer.ptr, alloc |-> r.afl.outer]

\* A deallocate that hands the body pointer and the body layout on as they are.
Affix_deallocate_call_body(ptr, layout) ==
    CallOn("inner", "deallocate", ptr, layout, TRUE)
\* Affix::deallocate(ptr, layout): the call it makes on the inner allocator.
Affix_deallocate_call(ptr, layout) ==
    LET affix_layout == AffixLayout_new(prefixT, suffixT, layout)
        start == broaden(affix_layout, ptr).prefix
    IN CallOn("inner", "deallocate", start, affix_layout.outer, TRUE)

\* ptr::read of `size` bytes at ptr
Read(ptr, size) == [i \in 1..size |-> mem[ptr + i - 1]]
\* A guard value: `size` bytes, all of them `byte`.
GuardValue(byte, size) == [i \in 1..size |-> byte]

\* ------------------------------------------------------- Affix and Guard
\* A guard panic aborts the program.
Aborted == afLast.result = "panic"
\* A write outside the allocation is undefined: what follows is not modelled.
Undefined == afLast.result = "undefined"
Halted == Aborted \/ Undefined

AffixInit ==
    /\ prefixT \in TypeLayouts
    /\ suffixT \in TypeLayouts
    /\ mem = EmptyMem
    /\ afBlock = NoAfBlock
    /\ afLast = NoAfLog

\* Affix::allocate(layout): the body of affix_allocate's triple
Affix_allocate(layout) ==
    /\ ~Halted
    /\ afBlock = NoAfBlock
    /\ \E r \in affix_allocate(layout) :
          IF r.ok
          THEN /\ afBlock' = AffixBlock("affix", layout, r)
               /\ mem' \in Fresh(r.outer.ptr, r.outer.len)
               /\ afLast' = AfLog("Affix.allocate", layout, r.triple.body.ptr, r.afl,
                                  r.calls, "ok", r.triple, "none")
          ELSE /\ afLast' = AfLog("Affix.allocate", layout, 0, r.afl,
                                  r.calls, "err", NoTriple, "none")
               /\ UNCHANGED <<afBlock, mem>>
    /\ UNCHANGED <<prefixT, suffixT>>
    /\ UNCHANGED <<limitVars, orVars, zeroVars>>

\* Affix::deallocate(ptr, layout) of the outstanding block
Affix_deallocate ==
    /\ ~Halted
    /\ afBlock.via = "affix"
    /\ afLast' = AfLog("Affix.deallocate", afBlock.layout, afBlock.body.ptr,
                       AffixLayout_new(prefixT, suffixT, afBlock.layout),
                       <<Affix_deallocate_call(afBlock.body.ptr, afBlock.layout)>>,
                       "ok", NoTriple, "none")
    /\ afBlock' = NoAfBlock
    /\ mem' = EmptyMem
    /\ UNCHANGED <<prefixT, suffixT>>
    /\ UNCHANGED <<limitVars, orVars, zeroVars>>

\* A Guard::allocate that writes the prefix value only.
Guard_write_prefix_only(m, triple) ==
    [a \in DOMAIN m |->
        IF a \in Extent(triple.prefix, prefixT.size) THEN PrefixByte ELSE m[a]]
\* ptr::write(prefix, self.prefix); ptr::write(suffix, self.suffix)
Guard_write(m, triple) ==
    [a \in DOMAIN m |->
        IF a \in Extent(triple.suffix, suffixT.size) THEN SuffixByte
        ELSE IF a \in Extent(triple.prefix, prefixT.size) THEN PrefixByte
        ELSE m[a]]

\* Guard::allocate(layout)
Guard_allocate(layout) ==
    /\ ~Halted
    /\ afBlock = NoAfBlock
    /\ \E r \in affix_allocate(layout) :
          IF r.ok
          THEN /\ afBlock' = AffixBlock("guard", layout, r)
               /\ \E m \in Fresh(r.outer.ptr, r.outer.len) :
                     mem' = Guard_write(m, r.triple)
               /\ afLast' = AfLog("Guard.allocate", layout, r.triple.body.ptr, r.afl,
                                  r.calls, "ok", r.triple, "none")
          ELSE /\ afLast' = AfLog("Guard.allocate", layout, 0, r.afl,
                                  r.calls, "err", NoTriple, "none")
               /\ UNCHANGED <<afBlock, mem>>
    /\ UNCHANGED <<prefixT, suffixT>>
    /\ UNCHANGED <<limitVars, orVars, zeroVars>>

\* A check that compares the prefix only.
Guard_check_prefix_only(prefix, suffix) ==
    IF prefix # GuardValue(PrefixByte, prefixT.size) THEN "panic" ELSE "ok"
\* if prefix != self.prefix { panic!(..) } if suffix != self.suffix { panic!(..) }
Guard_check(prefix, suffix) ==
    IF prefix # GuardValue(PrefixByte, prefixT.size) THEN "panic"
    ELSE IF suffix # GuardValue(SuffixByte, suffixT.size) THEN "panic"
    ELSE "ok"

\* Guard::deallocate(body, layout) of the outstanding block: both affixes are
\* read and compared before Affix::deallocate is called.
Guard_deallocate ==
    /\ ~Halted
    /\ afBlock.via = "guard"
    /\ LET layout == afBlock.layout
           body == afBlock.body.ptr
           affix_layout == AffixLayout_new(prefixT, suffixT, layout)
           ends == broaden(affix_layout, body)
           verdict == Guard_check(Read(ends.prefix, prefixT.size),
                                  Read(ends.suffix, suffixT.size))
       IN IF verdict = "ok"
          THEN /\ afLast' = AfLog("Guard.deallocate", layout, body, affix_layout,
                                  <<CallOn("Affix", "deallocate", body, layout, TRUE),
                                    Affix_deallocate_call(body, layout)>>,
                                  "ok", NoTriple, "none")
               /\ afBlock' = NoAfBlock
               /\ mem' = EmptyMem
          ELSE /\ afLast' = AfLog("Guard.deallocate", layout, body, affix_layout,
                                  <<>>, "panic", NoTriple, "none")
               /\ UNCHANGED <<afBlock, mem>>
    /\ UNCHANGED <<prefixT, suffixT>>
    /\ UNCHANGED <<limitVars, orVars, zeroVars>>

\* The program stores byte b at address a of the outstanding block; it
\* leaves alone the block it got from Zero over Guard.
Store(a, b) ==
    /\ ~Halted
    /\ afBlock # NoAfBlock
    /\ afBlock.via # "zero"
    /\ a \in DOMAIN mem
    /\ mem[a] # b
    /\ mem' = [mem EXCEPT ![a] = b]
    /\ UNCHANGED <<prefixT, suffixT, afBlock, afLast>>
    /\ UNCHANGED <<limitVars, orVars, zeroVars>>

\* -------------------------------------------- Or over Affix and a fallback
\* Pointers lo..hi stay inside (or one past the end of) the outstanding block.
InBlock(lo, hi) == afBlock.start <= lo /\ hi <= afBlock.start + afBlock.alloc.size

\* An owns that claims every pointer whose layout cannot be computed.
Affix_owns_on_overflow(ptr, layout) ==
    LET affix_layout == AffixLayout_new(prefixT, suffixT, layout) IN
    IF affix_layout.some
    THEN LET start == broaden(affix_layout, ptr).prefix IN
         IF InBlock(start, start + affix_layout.suffix_offset)
         THEN {Heap_owns("primary", start, affix_layout.outer)}
         ELSE BOOLEAN
    ELSE {TRUE}
\* Affix::owns(ptr, layout): the answers it can give. The pointer is broadened
\* before the inner allocator is asked; pointer arithmetic that leaves the
\* allocation the pointer belongs to is undefined, so any answer can follow.
Affix_owns(ptr, layout) ==
    LET affix_layout == AffixLayout_new(prefixT, suffixT, layout) IN
    IF affix_layout.some
    THEN LET start == broaden(affix_layout, ptr).prefix IN
         IF InBlock(start, start + affix_layout.suffix_offset)
         THEN {Heap_owns("primary", start, affix_layout.outer)}
         ELSE BOOLEAN
    ELSE {FALSE}

\* Or::allocate with Affix as primary: the fallback is asked for the body
\* layout itself when the primary fails.
OrAffix_allocate(layout) ==
    /\ ~Halted
    /\ afBlock = NoAfBlock
    /\ \E r \in affix_allocate(layout) :
          IF r.ok
          THEN /\ afBlock' = AffixBlock("or", layout, r)
               /\ mem' \in Fresh(r.outer.ptr, r.outer.len)
               /\ afLast' = AfLog("Or.allocate", layout, r.triple.body.ptr, r.afl,
                                  r.calls, "ok", r.triple, "primary")
          ELSE \/ /\ afLast' = AfLog("Or.allocate", layout, 0, r.afl,
                                     r.calls \o <<CallOn("fallback", "allocate", 0, layout, FALSE)>>,
                                     "err", NoTriple, "fallback")
                  /\ UNCHANGED <<afBlock, mem>>
               \/ LET ptr == Place("fallback", layout) IN
                  /\ afBlock' = [via |-> "or", layout |-> layout,
                                 body |-> Slice(ptr, layout.size), afl |-> r.afl,
                                 owner |-> "fallback", start |-> ptr, alloc |-> layout]
                  /\ mem' \in Fresh(ptr, layout.size)
                  /\ afLast' = AfLog("Or.allocate", layout, ptr, r.afl,
                                     r.calls \o <<CallOn("fallback", "allocate", ptr, layout, TRUE)>>,
                                     "ok", NoTriple, "fallback")
    /\ UNCHANGED <<prefixT, suffixT>>
    /\ UNCHANGED <<limitVars, orVars, zeroVars>>

\* Or::deallocate with Affix as primary: primary.owns decides who is called.
OrAffix_deallocate ==
    /\ ~Halted
    /\ afBlock.via = "or"
    /\ \E answer \in Affix_owns(afBlock.body.ptr, afBlock.layout) :
          LET ptr == afBlock.body.ptr
              layout == afBlock.layout
          IN afLast' = AfLog("Or.deallocate", layout, ptr,
                             AffixLayout_new(prefixT, suffixT, layout),
                             IF answer
                             THEN <<CallOn("primary", "deallocate", ptr, layout, TRUE),
                                    Affix_deallocate_call(ptr, layout)>>
                             ELSE <<CallOn("fallback", "deallocate", ptr, layout, TRUE)>>,
                             "ok", NoTriple,
                             IF answer THEN "primary" ELSE "fallback")
    /\ afBlock' = NoAfBlock
    /\ mem' = EmptyMem
    /\ UNCHANGED <<prefixT, suffixT>>
    /\ UNCHANGED <<limitVars, orVars, zeroVars>>

\* ------------------------------------------------------- Zero over Guard
\* ptr.write_bytes(0, count): the bytes of the block it reaches become zero.
write_bytes(m, ptr, count) ==
    [a \in DOMAIN m |-> IF a \in Extent(ptr, count) THEN 0 ELSE m[a]]

\* Zero::allocate(layout) over a Guard: self.inner.allocate_zeroed(layout),
\* which Guard leaves to the trait: Guard::allocate, then zeros written over
\* the whole slice it returned. Zeros written past the end of the outer
\* block are a write outside the allocation.
ZeroGuard_allocate(layout) ==
    /\ ~Halted
    /\ afBlock = NoAfBlock
    /\ \E r \in affix_allocate(layout) :
          IF r.ok
          THEN /\ afBlock' = AffixBlock("zero", layout, r)
               /\ \E m \in Fresh(r.outer.ptr, r.outer.len) :
                     mem' = write_bytes(Guard_write(m, r.triple),
                                        r.triple.body.ptr, r.triple.body.len)
               /\ afLast' = AfLog("Zero.allocate", layout, r.triple.body.ptr, r.afl,
                                  <<CallOn("Guard", "allocate_zeroed", r.triple.body.ptr, layout, TRUE)>>
                                     \o r.calls,
                                  IF r.triple.body.ptr + r.triple.body.len
                                        <= r.outer.ptr + r.outer.len
                                  THEN "ok" ELSE "undefined",
                                  r.triple, "none")
          ELSE /\ afLast' = AfLog("Zero.allocate", layout, 0, r.afl,
                                  <<CallOn("Guard", "allocate_zeroed", 0, layout, FALSE)>>
                                     \o r.calls,
                                  "err", NoTriple, "none")
               /\ UNCHANGED <<afBlock, mem>>
    /\ UNCHANGED <<prefixT, suffixT>>
    /\ UNCHANGED <<limitVars, orVars, zeroVars>>

\* Zero::deallocate(ptr, layout) over a Guard: Guard::deallocate(ptr, layout)
ZeroGuard_deallocate ==
    /\ ~Halted
    /\ afBlock.via = "zero"
    /\ LET layout == afBlock.layout
           body == afBlock.body.ptr
           affix_layout == AffixLayout_new(prefixT, suffixT, layout)
           ends == broaden(affix_layout, body)
           verdict == Guard_check(Read(ends.prefix, prefixT.size),
                                  Read(ends.suffix, suffixT.size))
       IN IF verdict = "ok"
          THEN /\ afLast' = AfLog("Zero.deallocate", layout, body, affix_layout,
                                  <<CallOn("Guard", "deallocate", body, layout, TRUE),
                                    CallOn("Affix", "deallocate", body, layout, TRUE),
                                    Affix_deallocate_call(body, layout)>>,
                                  "ok", NoTriple, "none")
               /\ afBlock' = NoAfBlock
               /\ mem' = EmptyMem
          ELSE /\ afLast' = AfLog("Zero.deallocate", layout, body, affix_layout,
                                  <<CallOn("Guard", "deallocate", body, layout, TRUE)>>,
                                  "panic", NoTriple, "none")
               /\ UNCHANGED <<afBlock, mem>>
    /\ UNCHANGED <<prefixT, suffixT>>
    /\ UNCHANGED <<limitVars, orVars, zeroVars>>

AffixNext ==
    \/ \E layout \in BodyLayouts : Affix_allocate(layout)
    \/ Affix_deallocate
    \/ \E layout \in BodyLayouts : Guard_allocate(layout)
    \/ Guard_deallocate
    \/ \E a \in DOMAIN mem, b \in Bytes : Store(a, b)
    \/ \E layout \in BodyLayouts : OrAffix_allocate(layout)
    \/ OrAffix_deallocate
    \/ \E layout \in BodyLayouts : ZeroGuard_allocate(layout)
    \/ ZeroGuard_deallocate

AffixIdle ==
    /\ prefixT = NoLayout
    /\ suffixT = NoLayout
    /\ mem = EmptyMem
    /\ afBlock = NoAfBlock
    /\ afLast = NoAfLog

\* -------------------------------------------------------------------- Zero
\* The addresses of the inner allocator of Zero.
ZeroPool == 1..(PoolSize + 1)
ZeroOps == {"allocate", "deallocate", "grow", "grow_zeroed", "shrink"}
\* Result<NonNull<[u8]>, AllocError> of the inner allocator; `zeroed` tells
\* whether the bytes it promises nothing about are zero.
ZOk(ptr, zeroed) == [ok |-> TRUE, ptr |-> ptr, zeroed |-> zeroed]
ZErr == [ok |-> FALSE, ptr |-> 0, zeroed |-> FALSE]
ZUnit == [ok |-> TRUE, ptr |-> 0, zeroed |-> FALSE]
ZBlock(ptr, layout, zeroed) == [ptr |-> ptr, layout |-> layout, zeroed |-> zeroed]
NoZBlock == ZBlock(0, NoLayout, FALSE)
\* What Zero was called with (block, new) and returned (result); the operation
\* of its inner allocator it called, with what (passed) and what came back (got).
ZLog(op, block, new, inner, passed, got, result) ==
    [op |-> op, block |-> block, new |-> new, inner |-> inner,
     passed |-> passed, got |-> got, result |-> result]
NoZLog == ZLog("none", NoZBlock, NoLayout, "none", <<>>, ZErr, ZErr)

ZeroInit ==
    /\ zeroLive = {}
    /\ zeroLast = NoZLog
ZeroIdle == ZeroInit

\* A Zero whose allocate calls the inner allocator's plain allocate.
Zero_calls_plain(op) == op
\* The operation of the inner allocator each operation of Zero calls.
Zero_calls(op) == IF op = "allocate" THEN "allocate_zeroed" ELSE op

ZeroFree == ZeroPool \ {b.ptr : b \in zeroLive}
\* What the inner allocator can answer to an allocating call: allocate_zeroed
\* and grow_zeroed hand out zero bytes, allocate and grow any bytes.
Inner_results(op, old) ==
    {ZErr} \cup
    {ZOk(p, z) : p \in ZeroFree, z \in
        IF op = "allocate_zeroed" THEN {TRUE}
        ELSE IF op = "allocate" THEN BOOLEAN
        ELSE IF op = "grow_zeroed" \/ op = "shrink" THEN {old.zeroed}
        ELSE {old.zeroed, FALSE}}

\* Zero::allocate(layout)
Zero_allocate(layout) ==
    /\ LET inner == Zero_calls("allocate") IN
       \E r \in Inner_results(inner, NoZBlock) :
          /\ zeroLive' = IF r.ok THEN zeroLive \cup {ZBlock(r.ptr, layout, r.zeroed)}
                         ELSE zeroLive
          /\ zeroLast' = ZLog("allocate", NoZBlock, layout, inner, <<layout>>, r, r)
    /\ UNCHANGED <<limitVars, orVars, affixVars>>

\* Zero::deallocate(ptr, layout)
Zero_deallocate(b) ==
    /\ b \in zeroLive
    /\ zeroLive' = zeroLive \ {b}
    /\ zeroLast' = ZLog("deallocate", b, NoLayout, Zero_calls("deallocate"),
                        <<b.ptr, b.layout>>, ZUnit, ZUnit)
    /\ UNCHANGED <<limitVars, orVars, affixVars>>

\* Zero::grow, Zero::grow_zeroed and Zero::shrink (ptr, old_layout, new_layout):
\* on success the inner allocator has moved the block, on failure it is kept.
Zero_resize(op, b, new) ==
    /\ b \in zeroLive
    /\ IF op = "shrink" THEN new.size <= b.layout.size ELSE new.size >= b.layout.size
    /\ LET inner == Zero_calls(op) IN
       \E r \in Inner_results(inner, b) :
          /\ zeroLive' = IF r.ok THEN (zeroLive \ {b}) \cup {ZBlock(r.ptr, new, r.zeroed)}
                         ELSE zeroLive
          /\ zeroLast' = ZLog(op, b, new, inner, <<b.ptr, b.layout, new>>, r, r)
    /\ UNCHANGED <<limitVars, orVars, affixVars>>
Zero_grow(b, new) == Zero_resize("grow", b, new)
Zero_grow_zeroed(b, new) == Zero_resize("grow_zeroed", b, new)
Zero_shrink(b, new) == Zero_resize("shrink", b, new)

ZeroNext ==
    \/ \E layout \in Layouts : Zero_allocate(layout)
    \/ \E b \in zeroLive : Zero_deallocate(b)
    \/ \E b \in zeroLive, new \in Layouts : Zero_grow(b, new)
    \/ \E b \in zeroLive, new \in Layouts : Zero_grow_zeroed(b, new)
    \/ \E b \in zeroLive, new \in Layouts : Zero_shrink(b, new)

\* The limit combinator before any call on it.
LimitIdle ==
    /\ kind = "size"
    /\ initial = 0
    /\ reliable = TRUE
    /\ limit = 0
    /\ expected = 0
    /\ live = {}
    /\ pc = [t \in Threads |-> "idle"]
    /\ lay = [t \in Threads |-> NoLayout]
    /\ prev = [t \in Threads |-> 0]
    /\ res = [t \in Threads |-> "none"]
    /\ blk = [t \in Threads |-> NoBlock]
    /\ innerCalls = [t \in Threads |-> 0]

\* ----------------------------------------------------------- specifications
\* The Or combinator before any call on it.
OrIdle ==
    /\ primaryKind = "Null"
    /\ fallbackKind = "Null"
    /\ orLive = [c \in {"primary", "fallback"} |-> {}]
    /\ orLast = [op |-> "none", ptr |-> 0, layout |-> NoLayout, calls |-> <<>>, result |-> NoResult]
    /\ panicked = FALSE
    /\ foreign = FALSE

\* One SizeLimit or CountLimit shared by the threads.
InitLimit == LimitInit /\ OrIdle /\ AffixIdle /\ ZeroIdle
SpecLimit == InitLimit /\ [][LimitNext]_vars

\* One Or over a primary and a fallback.
InitOr == OrInit /\ LimitIdle /\ AffixIdle /\ ZeroIdle
SpecOr == InitOr /\ [][OrNext]_vars

\* One allocation at a time through an Affix, a Guard over it, or an Or with
\* the Affix as primary, for every pair of affix types.
InitAffix == AffixInit /\ LimitIdle /\ OrIdle /\ ZeroIdle
SpecAffix == InitAffix /\ [][AffixNext]_vars

\* One Zero over an inner allocator.
InitZero == ZeroInit /\ LimitIdle /\ OrIdle /\ AffixIdle
SpecZero == InitZero /\ [][ZeroNext]_vars

\* ------------------------------------------------- claims: the limit combinators
\* What allocate charges: layout.size() for SizeLimit, 1 for CountLimit.
Cost(layout) == IF kind = "size" THEN layout.size ELSE 1

RECURSIVE SumSizes(_)
SumSizes(S) ==
    IF S = {} THEN 0
    ELSE LET b == CHOOSE x \in S : TRUE IN b.layout.size + SumSizes(S \ {b})

\* What the outstanding allocations have been charged.
OutstandingCost ==
    IF kind = "size" THEN SumSizes(Outstanding) ELSE Cardinality(Outstanding)

Quiescent == \A t \in Threads : pc[t] = "idle"

\* Steps of thread t: its reservation is refused / passes / is still undecided
\* after a look at the counter / its deallocate does its fetch.
Rejects(t) == pc[t] \in {"idle", "cas"} /\ pc'[t] = "ret"
Passes(t) == pc[t] = "cas" /\ pc'[t] = "inner"
Continues(t) == pc'[t] = "cas" /\ (pc[t] = "idle" \/ prev'[t] # prev[t])
Releases(t) == pc[t] = "idle" /\ pc'[t] = "free"

\* C1: SizeLimit::deallocate of a block allocated with layout L adds L.size()
\* back to the budget, so allocate(L) followed by deallocate(ptr, L) leaves the
\* budget where it was before the allocate.
C1_DeallocateRestoresBudget ==
    [][\A t \in Threads :
        (kind = "size" /\ Releases(t)) => limit' = limit + lay'[t].size]_vars

\* C2: the sizes of the allocations outstanding through a SizeLimit built with
\* limit N never add up to more than N.
C2_OutstandingWithinLimit ==
    kind = "size" => SumSizes(Outstanding) <= initial

\* C3: whenever no call is in progress, the counter equals the initial limit
\* minus the bytes (SizeLimit) or the allocations (CountLimit) outstanding.
C3_BudgetIsLimitMinusOutstanding ==
    Quiescent => limit = initial - OutstandingCost

\* C4: the reservation is decided by the cost and the remaining budget alone.
\* cost > remaining: allocate returns AllocError, does not call the inner
\* allocator and leaves the budget as it is. cost <= remaining: the budget
\* goes down by exactly the cost and the inner allocator is called exactly once.
C4_ReservationDecidedByCost ==
    [][\A t \in Threads :
        /\ Rejects(t) =>
              /\ Cost(lay'[t]) > limit
              /\ limit' = limit
              /\ live' = live
              /\ res'[t] = "Err_limit"
              /\ innerCalls'[t] = 0
        /\ Continues(t) => Cost(lay'[t]) <= limit
        /\ Passes(t) =>
              /\ Cost(lay[t]) <= limit
              /\ limit' = limit - Cost(lay[t])
        /\ (pc[t] = "inner" /\ pc'[t] # "inner") =>
              /\ pc'[t] = "ret"
              /\ res'[t] \in {"Ok", "Err_inner"}
              /\ innerCalls'[t] = 1
        /\ (pc[t] = "ret" /\ pc'[t] = "idle") =>
              innerCalls[t] = (IF res[t] = "Err_limit" THEN 0 ELSE 1)]_vars

\* Both outcomes of the reservation have happened: one call was refused and
\* another one, let through, has its block.
C4_Witness ==
    \E t, u \in Threads :
        /\ pc[t] = "ret" /\ res[t] = "Err_limit" /\ Cost(lay[t]) > limit
        /\ pc[u] = "ret" /\ res[u] = "Ok"

\* The allocations that hold a unit of a CountLimit's budget: handed out and
\* not yet given back to the counter, or let through and on their way to the
\* inner allocator. With no other call in progress this is the number of
\* outstanding allocations.
Held ==
    Cardinality(live) - Cardinality({t \in Threads : pc[t] = "free"})
        + Cardinality({t \in Threads : pc[t] = "inner"})

\* C5: a CountLimit built with limit N over an inner allocator that always
\* succeeds never has more than N allocations outstanding; an allocate fails
\* exactly when N allocations are outstanding, and succeeds otherwise, so also
\* right after one of N has been deallocated.
C5_CountLimitSequence ==
    /\ []((kind = "count" /\ reliable) =>
            /\ Cardinality(Outstanding) <= initial
            /\ Held <= initial
            /\ \A t \in Threads : res[t] # "Err_inner")
    /\ [][(kind = "count" /\ reliable) =>
            \A t \in Threads :
                /\ Rejects(t) => Held = initial
                /\ Continues(t) => Held < initial
                /\ Passes(t) => Held < initial]_vars

\* limit = 1: one allocation is outstanding and a second allocate has just
\* been refused.
C5_Witness ==
    /\ kind = "count" /\ reliable /\ initial = 1
    /\ Cardinality(Outstanding) = 1
    /\ \E t \in Threads : pc[t] = "ret" /\ res[t] = "Err_limit"

\* C6: with threads interleaving allocate and matching deallocate on one
\* SizeLimit or CountLimit built with limit N, the counter never wraps below
\* zero and never exceeds N.
C6_BudgetInRange == limit \in 0..initial

\* C7: the reservation is atomic. A call passes only if the counter at that
\* instant covers its cost, and lowers the counter by exactly its cost, so of
\* two concurrent calls whose costs together exceed the budget the second
\* finds the budget short; no update of the counter is lost.
C7_ReservationAtomic ==
    /\ [](limit = expected)
    /\ [][\A t \in Threads :
            Passes(t) =>
                /\ Cost(lay[t]) <= limit
                /\ limit' = limit - Cost(lay[t])
                /\ \A u \in Threads \ {t} :
                      (pc[u] = "cas" /\ Cost(lay[t]) + Cost(lay[u]) > limit)
                          => Cost(lay[u]) > limit']_vars

\* Two calls read a budget that covers either but not both; one has passed
\* and the other still holds the value it read.
C7_Witness ==
    \E t, u \in Threads :
        /\ pc[t] = "inner" /\ pc[u] = "cas"
        /\ prev[u] = limit + Cost(lay[t])
        /\ Cost(lay[u]) <= prev[u]
        /\ Cost(lay[u]) > limit

\* ------------------------------------------------------- claims: Or and Null
AllocOps == {"allocate", "allocate_zeroed"}
RouteOps == {"deallocate", "grow", "grow_zeroed", "shrink"}

\* C8: Or.allocate and Or.allocate_zeroed call the primary first. If it
\* succeeds its region is the result and the fallback is not called; only if
\* it fails is the fallback called, and then the fallback's result, region or
\* error, is the result.
C8_PrimaryBeforeFallback ==
    orLast.op \in AllocOps =>
        LET calls == orLast.calls IN
        /\ Len(calls) \in {1, 2}
        /\ calls[1].child = "primary"
        /\ calls[1].op = orLast.op
        /\ calls[1].ok =>
              /\ Len(calls) = 1
              /\ orLast.result.ok
              /\ orLast.result.from = "primary"
              /\ orLast.result.ptr \in Pool("primary")
        /\ ~calls[1].ok =>
              /\ Len(calls) = 2
              /\ calls[2].child = "fallback"
              /\ calls[2].op = orLast.op
              /\ orLast.result.from = "fallback"
              /\ orLast.result.ok = calls[2].ok

\* A primary that can allocate has failed and the fallback has supplied the
\* region.
C8_Witness ==
    /\ orLast.op \in AllocOps
    /\ primaryKind = "Owning"
    /\ Len(orLast.calls) = 2
    /\ orLast.result.ok
    /\ orLast.result.ptr \in Pool("fallback")

\* C9: Or.deallocate, grow, grow_zeroed and shrink call exactly one child, the
\* primary if primary.owns(ptr, layout) and the fallback otherwise; with a
\* primary whose owns is accurate no child is handed a block it did not
\* produce.
C9_RoutedByOwns ==
    /\ ~foreign
    /\ orLast.op \in RouteOps =>
          /\ Len(orLast.calls) = 1
          /\ orLast.calls[1].op = orLast.op
          /\ orLast.calls[1].child =
                (IF owns("primary", orLast.ptr, orLast.layout)
                 THEN "primary" ELSE "fallback")
          /\ orLast.ptr \in Pool(orLast.calls[1].child)

\* Both children have blocks out and one of the primary's has just gone back
\* to the primary.
C9_Witness ==
    /\ orLast.op = "deallocate"
    /\ orLast.calls[1].child = "primary"
    /\ orLive["fallback"] # {}

\* C10: Null.allocate fails for every layout and Null.owns is false for every
\* pointer. So Or(Null, F) allocates exactly when F does, sends every
\* deallocate, grow and shrink to F and never reaches Null.deallocate, and
\* Or(Null, Null).allocate always fails.
C10_NullPrimary ==
    /\ \A layout \in Layouts :
          /\ \A r \in Null_allocate(layout) : ~r.ok
          /\ \A p \in Pool("primary") \cup Pool("fallback") : ~Null_owns(p, layout)
    /\ primaryKind = "Null" =>
          /\ ~panicked
          /\ orLive["primary"] = {}
          /\ orLast.op \in AllocOps =>
                /\ Len(orLast.calls) = 2
                /\ ~orLast.calls[1].ok
                /\ orLast.calls[2].child = "fallback"
                /\ orLast.result.from = "fallback"
                /\ orLast.result.ok = orLast.calls[2].ok
                /\ fallbackKind = "Null" => ~orLast.result.ok
          /\ orLast.op \in RouteOps =>
                /\ Len(orLast.calls) = 1
                /\ orLast.calls[1].child = "fallback"

\* Or(Null, F) has handed out a block of F's and has just given it back to F.
C10_Witness ==
    /\ primaryKind = "Null"
    /\ fallbackKind = "Base"
    /\ orLast.op = "deallocate"
    /\ orLast.calls[1].child = "fallback"
    /\ orLast.ptr \in Pool("fallback")

\* ---------------------------------------- claims: the limit combinators, continued
\* C19: when the reservation passes and the inner allocator then fails,
\* allocate returns the inner allocator's error and the budget stays lowered
\* by the cost: neither the failing call nor its return gives it back, so
\* later calls meet the lowered budget with nothing outstanding for it.
C19_NoRollbackOnInnerFailure ==
    [][\A t \in Threads :
        /\ (pc[t] = "inner" /\ pc'[t] = "ret" /\ live' = live) =>
              /\ res'[t] = "Err_inner"
              /\ limit' = limit
        /\ (pc[t] = "ret" /\ res[t] = "Err_inner" /\ pc'[t] = "idle") =>
              /\ limit' = limit
              /\ live' = live]_vars

\* A CountLimit of 1 has nothing outstanding and no call in flight but the
\* one that has just been refused: an earlier inner failure used the budget up.
C19_Witness ==
    /\ kind = "count" /\ initial = 1 /\ limit = 0
    /\ live = {}
    /\ \E t \in Threads :
          /\ pc[t] = "ret" /\ res[t] = "Err_limit"
          /\ \A u \in Threads \ {t} : pc[u] = "idle"

\* -------------------------------------------------- claims: AffixLayout, Affix
\* The last operation was a successful affix_allocate: its triple is logged.
Allocated_affix == afLast.result = "ok" /\ afLast.triple # NoTriple
\* The address the inner allocator returned to the last affix_allocate.
OuterStart == SelectSeq(afLast.calls, LAMBDA c : c.on = "inner")[1].ptr

\* C18: whenever AffixLayout::new succeeds for the affix types and a body
\* layout, body_offset is at least the prefix size and a multiple of the body
\* alignment, suffix_offset is at least body_offset + body.size, outer.size is
\* at least suffix_offset + the suffix size and a multiple of outer.align.
C18_AffixLayoutOffsets ==
    /\ \A body \in BodyLayouts :
          LET l == AffixLayout_new(prefixT, suffixT, body) IN
          l.some =>
             /\ l.body_offset >= prefixT.size
             /\ l.body_offset % body.align = 0
             /\ l.suffix_offset >= l.body_offset + body.size
             /\ l.outer.size >= l.suffix_offset + suffixT.size
             /\ l.outer.size % l.outer.align = 0
    /\ afLast.afl.some =>
          /\ afLast.afl = AffixLayout_new(prefixT, suffixT, afLast.layout)
          /\ afLast.afl.body_offset % afLast.layout.align = 0

\* An allocation whose body had to be padded away from a non-empty prefix.
C18_Witness ==
    /\ Allocated_affix
    /\ prefixT.size > 0
    /\ afLast.afl.body_offset > prefixT.size
    /\ afLast.afl.outer.size >= afLast.afl.suffix_offset + suffixT.size

\* C14: narrow applied to an outer region that starts at s, then broaden
\* applied to the body pointer, gives the prefix pointer s and the suffix
\* pointer s + suffix_offset.
C14_BroadenInvertsNarrow ==
    /\ \A body \in BodyLayouts, s \in Arena("primary") :
          LET l == AffixLayout_new(prefixT, suffixT, body) IN
          l.some =>
             broaden(l, narrow(l, Slice(s, l.outer.size)).ptr)
                = [prefix |-> s, suffix |-> s + l.suffix_offset]
    /\ Allocated_affix =>
          /\ afLast.triple.prefix = OuterStart
          /\ afLast.triple.suffix = OuterStart + afLast.afl.suffix_offset

\* An allocation with a prefix in front of the body and a suffix behind it.
C14_Witness ==
    /\ Allocated_affix
    /\ afLast.afl.body_offset > 0
    /\ afLast.afl.suffix_offset > afLast.afl.body_offset
    /\ suffixT.size > 0

\* C17: the body slice narrow returns starts at outer start + body_offset and
\* its length is suffix_offset - body_offset.
C17_NarrowLength ==
    Allocated_affix =>
       /\ afLast.triple.body.ptr = OuterStart + afLast.afl.body_offset
       /\ afLast.triple.body.len = afLast.afl.suffix_offset - afLast.afl.body_offset

\* C15: the body region affix_allocate returns starts at outer start +
\* body_offset, ends at or before outer start + outer.size, and shares no byte
\* with the prefix or with the suffix.
C15_BodyInsideOuter ==
    Allocated_affix =>
       LET body == Extent(afLast.triple.body.ptr, afLast.triple.body.len) IN
       /\ afLast.triple.body.ptr = OuterStart + afLast.afl.body_offset
       /\ afLast.triple.body.ptr + afLast.triple.body.len
             <= OuterStart + afLast.afl.outer.size
       /\ body \cap Extent(afLast.triple.prefix, prefixT.size) = {}
       /\ body \cap Extent(afLast.triple.suffix, suffixT.size) = {}

\* ------------------------------------------------------ claims: Affix, Guard
\* The step gives the outstanding block back through Affix::deallocate.
Deallocates_affix ==
    /\ afBlock.owner = "primary"
    /\ afBlock' = NoAfBlock
    /\ afLast'.op \in {"Affix.deallocate", "Guard.deallocate"}

\* C13: when a block allocated through Affix with body layout L is
\* deallocated with L, the AffixLayout computed again equals the one of the
\* allocation, and the inner deallocate gets the pointer the inner allocate
\* returned and the outer layout it was asked for.
C13_InnerDeallocateMatches ==
    [][Deallocates_affix =>
          /\ afLast'.afl = afBlock.afl
          /\ afLast'.calls[Len(afLast'.calls)]
                = CallOn("inner", "deallocate", afBlock.start, afBlock.alloc, TRUE)]_vars

\* A block with a prefix before its body has been given back through Affix.
C13_Witness ==
    /\ afLast.op = "Affix.deallocate"
    /\ afLast.afl.body_offset > 0
    /\ afLast.calls[1].ptr = afLast.ptr - afLast.afl.body_offset
    /\ afBlock = NoAfBlock

\* The affix regions of the outstanding block hold the Guard's values.
PrefixIntact ==
    Read(afBlock.start, prefixT.size) = GuardValue(PrefixByte, prefixT.size)
SuffixIntact ==
    Read(afBlock.start + afBlock.afl.suffix_offset, suffixT.size)
        = GuardValue(SuffixByte, suffixT.size)
\* The step is a Guard::allocate that succeeds / a Guard::deallocate.
Guard_allocates == afBlock = NoAfBlock /\ afBlock'.via = "guard"
Guard_deallocates == afBlock.via = "guard" /\ afLast'.op = "Guard.deallocate"

\* C12: right after a successful Guard::allocate the prefix region holds the
\* prefix value and the suffix region the suffix value; a Guard::deallocate
\* that finds both regions so does not panic and makes exactly one
\* deallocate call on the Affix, with the body pointer and the layout.
C12_GuardRoundTrip ==
    [][/\ Guard_allocates =>
             /\ PrefixIntact'
             /\ SuffixIntact'
             /\ afLast'.triple.prefix = afBlock'.start
             /\ afLast'.triple.suffix = afBlock'.start + afBlock'.afl.suffix_offset
       /\ (Guard_deallocates /\ PrefixIntact /\ SuffixIntact) =>
             /\ afLast'.result = "ok"
             /\ afBlock' = NoAfBlock
             /\ SelectSeq(afLast'.calls, LAMBDA c : c.on = "Affix")
                   = <<CallOn("Affix", "deallocate", afBlock.body.ptr, afBlock.layout, TRUE)>>]_vars

\* A block with a prefix and a suffix went through Guard::deallocate unharmed.
C12_Witness ==
    /\ afLast.op = "Guard.deallocate"
    /\ afLast.result = "ok"
    /\ prefixT.size > 0
    /\ suffixT.size > 0
    /\ afBlock = NoAfBlock

\* C11: a Guard::deallocate that finds the prefix region or the suffix region
\* different from the Guard's value panics without calling the Affix or the
\* inner allocator, and nothing is called for that block afterwards.
C11_GuardDetectsCorruption ==
    /\ [](Aborted => (afBlock.via \in {"guard", "zero"}
                       /\ \A i \in DOMAIN afLast.calls : afLast.calls[i].on = "Guard"))
    /\ [][/\ (Guard_deallocates /\ ~(PrefixIntact /\ SuffixIntact)) =>
                /\ afLast'.result = "panic"
                /\ afLast'.calls = <<>>
                /\ afBlock' = afBlock
          /\ Halted => UNCHANGED vars]_vars

\* Guard::deallocate panicked on a block whose prefix was intact and whose
\* suffix was not.
C11_Witness ==
    /\ Aborted
    /\ prefixT.size > 0
    /\ PrefixIntact
    /\ ~SuffixIntact

\* --------------------------------------------------- claims: Affix as primary
\* The pointers of both arenas.
ArenaPtrs == Arena("primary") \cup Arena("fallback")

\* C20: Affix::owns(ptr, L) is false when no AffixLayout can be computed from
\* L, and otherwise what the inner allocator's owns says of ptr - body_offset
\* and the outer layout; it is true of the body pointer of every block this
\* Affix allocated, and Or over this Affix deallocates such a block through
\* its primary.
C20_AffixOwnsItsBodies ==
    /\ [](\A layout \in BodyLayouts, ptr \in ArenaPtrs :
            LET l == AffixLayout_new(prefixT, suffixT, layout) IN
            /\ ~l.some => Affix_owns(ptr, layout) = {FALSE}
            /\ (l.some /\ InBlock(ptr - l.body_offset, ptr - l.body_offset + l.suffix_offset)) =>
                  Affix_owns(ptr, layout)
                     = {Heap_owns("primary", ptr - l.body_offset, l.outer)})
    /\ []((afBlock.via = "or" /\ afBlock.owner = "primary") =>
            Affix_owns(afBlock.body.ptr, afBlock.layout) = {TRUE})
    /\ [][(afBlock.via = "or" /\ afBlock.owner = "primary" /\ afBlock' = NoAfBlock) =>
            /\ afLast'.route = "primary"
            /\ afLast'.calls[Len(afLast'.calls)]
                  = CallOn("inner", "deallocate", afBlock.start, afBlock.alloc, TRUE)]_vars

\* Or gave a block of its Affix primary, with a prefix before the body, back
\* to the primary, for affix types that make some body layout overflow.
C20_Witness ==
    /\ afLast.op = "Or.deallocate"
    /\ afLast.route = "primary"
    /\ afLast.ptr \in Arena("primary")
    /\ afLast.afl.body_offset > 0
    /\ \E layout \in BodyLayouts : ~AffixLayout_new(prefixT, suffixT, layout).some

\* ------------------------------------------------------------- claims: Zero
\* C16: Zero::allocate calls allocate_zeroed of the inner allocator, never
\* its allocate, and returns what it returns, so that the block it hands out
\* is zeroed; deallocate, grow, grow_zeroed and shrink call the inner
\* operation of the same name with their own arguments and return its result.
C16_ZeroForwards ==
    /\ zeroLast.op = "allocate" =>
          /\ zeroLast.inner = "allocate_zeroed"
          /\ zeroLast.passed = <<zeroLast.new>>
          /\ zeroLast.result = zeroLast.got
          /\ zeroLast.result.ok => zeroLast.result.zeroed
    /\ zeroLast.op = "deallocate" =>
          /\ zeroLast.inner = "deallocate"
          /\ zeroLast.passed = <<zeroLast.block.ptr, zeroLast.block.layout>>
    /\ zeroLast.op \in {"grow", "grow_zeroed", "shrink"} =>
          /\ zeroLast.inner = zeroLast.op
          /\ zeroLast.passed = <<zeroLast.block.ptr, zeroLast.block.layout, zeroLast.new>>
          /\ zeroLast.result = zeroLast.got
    /\ \A b \in zeroLive : b.zeroed \/ zeroLast.op # "allocate" \/ b.ptr # zeroLast.result.ptr

\* Zero has allocated a block of one byte or more, which is zeroed, while
\* another block is outstanding.
C16_Witness ==
    /\ zeroLast.op = "allocate"
    /\ zeroLast.result.ok
    /\ zeroLast.new.size > 0
    /\ Cardinality(zeroLive) > 1

\* ------------------------------------------------- claims: Zero over Guard
\* C21: a block allocated through Zero over Guard, which the program never
\* writes to, holds both guard values after the allocation and until it is
\* deallocated, and its deallocation does not panic.
C21_ZeroKeepsGuardValues ==
    /\ []((afBlock.via = "zero" /\ ~Halted) => (PrefixIntact /\ SuffixIntact))
    /\ [][(afBlock.via = "zero" /\ afLast'.op = "Zero.deallocate") =>
             /\ afLast'.result = "ok"
             /\ afBlock' = NoAfBlock]_vars

====
